---- MODULE Spec2Model ----
(***************************************************************************)
(* minigrep (src/src/lib.rs): Config::build, run, search and               *)
(* search_case_insensitive.                                                *)
(*                                                                         *)
(* A Rust string is modelled as a sequence of characters, each character   *)
(* a TLA+ string naming it:                                                *)
(*   "a"      U+0061 LATIN SMALL LETTER A                                  *)
(*   "A"      U+0041 LATIN CAPITAL LETTER A                                *)
(*   "SIGMA"  U+03A3 GREEK CAPITAL LETTER SIGMA                            *)
(*   "sigma"  U+03C3 GREEK SMALL LETTER SIGMA                              *)
(*   "fsigma" U+03C2 GREEK SMALL LETTER FINAL SIGMA                        *)
(*   "."      U+002E FULL STOP (Case_Ignorable, not Cased)                 *)
(*   "LF"     U+000A, "CR" U+000D                                          *)
(* The value of an environment variable is a sequence of bytes, "xFF"      *)
(* being a byte that no UTF-8 encoding contains.                           *)
(***************************************************************************)
EXTENDS Naturals, Sequences, FiniteSets

VARIABLES pc, args, env, buildResult, config, contents, searched, results,
          idx, stdout, runResult

vars == <<pc, args, env, buildResult, config, contents, searched, results,
          idx, stdout, runResult>>

(***************************************************************************)
(* Bounds of the model.                                                    *)
(***************************************************************************)
\* longest argument sequence handed to Config::build
MaxArgs == 4
\* longest file contents read by run (Spec)
MaxFileLen == 3
\* longest contents handed to the two search functions (SpecSearch)
MaxLen == 3
\* longest query handed to the two search functions (SpecSearch)
MaxQueryLen == 2

RECURSIVE SeqsUpTo(_, _)
SeqsUpTo(S, n) ==
  IF n = 0 THEN {<<>>}
  ELSE LET shorter == SeqsUpTo(S, n - 1)
       IN  shorter \cup {Append(s, c) : s \in shorter, c \in S}

\* the strings an argument may be: the empty string, "a", "A"
ArgStrs == {<<>>, <<"a">>, <<"A">>}
ArgSeqs == SeqsUpTo(ArgStrs, MaxArgs)

\* the characters of a file read by run, and its possible contents
FileChars == {"a", "A", "LF"}
FileContents == SeqsUpTo(FileChars, MaxFileLen)

\* the characters of the contents and of the query given to the search functions
ContentChars == {"a", "A", "SIGMA", ".", "LF", "CR"}
QueryChars == {"a", "A", "SIGMA", "CR"}
Contents == SeqsUpTo(ContentChars, MaxLen)
Queries == SeqsUpTo(QueryChars, MaxQueryLen)

\* IGNORE_CASE in the process environment: unset, or set to a byte string
EnvStates ==
  {[set |-> FALSE, bytes |-> <<>>]}
    \cup {[set |-> TRUE, bytes |-> b] : b \in {<<>>, <<"1">>, <<"xFF">>}}

\* what fs::read_to_string can fail with
ReadErrors == {"NotFound", "PermissionDenied", "InvalidData"}

(***************************************************************************)
(* The standard-library functions lib.rs calls.                            *)
(***************************************************************************)
Last(s) == s[Len(s)]
Front(s) == SubSeq(s, 1, Len(s) - 1)

\* str::contains(needle): needle is a contiguous substring of hay
contains(hay, needle) ==
  \E i \in 0..Len(hay) :
    /\ i + Len(needle) <= Len(hay)
    /\ SubSeq(hay, i + 1, i + Len(needle)) = needle

\* index of the first LF of s, 0 when there is none
FirstLF(s) ==
  IF \E i \in 1..Len(s) : s[i] = "LF"
  THEN CHOOSE i \in 1..Len(s) : s[i] = "LF" /\ \A j \in 1..(i - 1) : s[j] # "LF"
  ELSE 0

\* str::split_inclusive('\n'): the pieces keep their LF; no empty last piece
RECURSIVE split_inclusive(_)
split_inclusive(s) ==
  IF s = <<>> THEN <<>>
  ELSE LET k == FirstLF(s)
       IN  IF k = 0 THEN <<s>>
           ELSE <<SubSeq(s, 1, k)>> \o split_inclusive(SubSeq(s, k + 1, Len(s)))

\* the closure of str::lines: strip one "\n", then one "\r" before it
strip_line_ending(piece) ==
  IF piece # <<>> /\ Last(piece) = "LF"
  THEN LET l == Front(piece)
       IN  IF l # <<>> /\ Last(l) = "CR" THEN Front(l) ELSE l
  ELSE piece

\* str::split('\n'): every LF separates, a final LF leaves an empty last piece
RECURSIVE split_newline(_)
split_newline(s) ==
  LET k == FirstLF(s)
  IN  IF k = 0 THEN <<s>>
      ELSE <<SubSeq(s, 1, k - 1)>> \o split_newline(SubSeq(s, k + 1, Len(s)))

lines_by_split(s) == split_newline(s)

\* str::lines
lines(s) ==
  LET pieces == split_inclusive(s)
  IN  [i \in 1..Len(pieces) |-> strip_line_ending(pieces[i])]

\* the Unicode properties Cased and Case_Ignorable
Cased(c) == c \in {"a", "A", "SIGMA", "sigma", "fsigma"}
Case_Ignorable(c) == c = "."

\* char-wise lower-case mapping (core::unicode::conversions::to_lower)
to_lower(c) ==
  CASE c = "A" -> "a"
    [] c = "SIGMA" -> "sigma"
    [] OTHER -> c

\* skip the case-ignorable characters, then: is the next one cased?
RECURSIVE case_ignorable_then_cased(_)
case_ignorable_then_cased(s) ==
  IF s = <<>> THEN FALSE
  ELSE IF Case_Ignorable(Head(s)) THEN case_ignorable_then_cased(Tail(s))
  ELSE Cased(Head(s))

Reverse(s) == [i \in 1..Len(s) |-> s[Len(s) + 1 - i]]

\* the capital sigma at from[i] maps to the final sigma at the end of a word
map_uppercase_sigma(from, i) ==
  LET is_word_final ==
        /\ case_ignorable_then_cased(Reverse(SubSeq(from, 1, i - 1)))
        /\ ~case_ignorable_then_cased(SubSeq(from, i + 1, Len(from)))
  IN  IF is_word_final THEN "fsigma" ELSE "sigma"

\* str::to_lowercase
to_lowercase(s) ==
  [i \in 1..Len(s) |->
     IF s[i] = "SIGMA" THEN map_uppercase_sigma(s, i) ELSE to_lower(s[i])]

\* a byte string is valid Unicode unless it holds the byte 0xFF
is_unicode(bytes) == \A i \in 1..Len(bytes) : bytes[i] # "xFF"

\* env::var(name): Ok when the variable is set and its value is valid Unicode
env_var(e) ==
  IF ~e.set THEN [ok |-> FALSE, err |-> "NotPresent"]
  ELSE IF ~is_unicode(e.bytes) THEN [ok |-> FALSE, err |-> "NotUnicode"]
  ELSE [ok |-> TRUE, err |-> ""]

(***************************************************************************)
(* lib.rs                                                                  *)
(***************************************************************************)
NoConfig == [query |-> <<>>, file_path |-> <<>>, ignore_case |-> FALSE]

\* an off-by-one in the length test: exactly three arguments are refused
Config_build_le(a, e) ==
  IF Len(a) <= 3
  THEN [tag |-> "Err", err |-> "not enough arguments", config |-> NoConfig]
  ELSE [tag |-> "Ok", err |-> "",
        config |-> [query |-> a[2], file_path |-> a[3],
                    ignore_case |-> env_var(e).ok]]

\* the program name taken for the query
Config_build_shifted(a, e) ==
  IF Len(a) < 3
  THEN [tag |-> "Err", err |-> "not enough arguments", config |-> NoConfig]
  ELSE [tag |-> "Ok", err |-> "",
        config |-> [query |-> a[1], file_path |-> a[2],
                    ignore_case |-> env_var(e).ok]]

\* one message per missing field
Config_build_which(a, e) ==
  IF Len(a) < 2
  THEN [tag |-> "Err", err |-> "Didn't get a query string", config |-> NoConfig]
  ELSE IF Len(a) < 3
  THEN [tag |-> "Err", err |-> "Didn't get a file path", config |-> NoConfig]
  ELSE [tag |-> "Ok", err |-> "",
        config |-> [query |-> a[2], file_path |-> a[3],
                    ignore_case |-> env_var(e).ok]]

\* Config::build(args), with the environment it reads
Config_build(a, e) ==
  IF Len(a) < 3
  THEN [tag |-> "Err", err |-> "not enough arguments", config |-> NoConfig]
  ELSE [tag |-> "Ok", err |-> "",
        config |-> [query |-> a[2], file_path |-> a[3],
                    ignore_case |-> env_var(e).ok]]

\* the loop of search over the lines ls, pushing onto acc
RECURSIVE search_loop(_, _, _)
search_loop(query, ls, acc) ==
  IF ls = <<>> THEN acc
  ELSE search_loop(query, Tail(ls),
                   IF contains(Head(ls), query) THEN Append(acc, Head(ls))
                   ELSE acc)

\* the containment test with its operands exchanged
RECURSIVE search_loop_swapped(_, _, _)
search_loop_swapped(query, ls, acc) ==
  IF ls = <<>> THEN acc
  ELSE search_loop_swapped(query, Tail(ls),
                           IF contains(query, Head(ls)) THEN Append(acc, Head(ls))
                           ELSE acc)

search_swapped(query, cont) == search_loop_swapped(query, lines(cont), <<>>)

search(query, cont) == search_loop(query, lines(cont), <<>>)

\* the loop of search_case_insensitive; query is already lower-cased
RECURSIVE search_ci_loop(_, _, _)
search_ci_loop(query, ls, acc) ==
  IF ls = <<>> THEN acc
  ELSE search_ci_loop(query, Tail(ls),
                      IF contains(to_lowercase(Head(ls)), query)
                      THEN Append(acc, Head(ls))
                      ELSE acc)

\* the lower-cased copy pushed instead of the line
RECURSIVE search_ci_loop_copy(_, _, _)
search_ci_loop_copy(query, ls, acc) ==
  IF ls = <<>> THEN acc
  ELSE search_ci_loop_copy(query, Tail(ls),
                           IF contains(to_lowercase(Head(ls)), query)
                           THEN Append(acc, to_lowercase(Head(ls)))
                           ELSE acc)

search_case_insensitive_copy(query, cont) ==
  search_ci_loop_copy(to_lowercase(query), lines(cont), <<>>)

\* the query left as it was given
search_case_insensitive_rawquery(query, cont) ==
  search_ci_loop(query, lines(cont), <<>>)

search_case_insensitive(query, cont) ==
  search_ci_loop(to_lowercase(query), lines(cont), <<>>)

\* the function run selects, and its result
run_selected(cfg) ==
  IF cfg.ignore_case THEN "search_case_insensitive" ELSE "search"

\* ignore_case not consulted
run_results_exact(cfg, cont) == search(cfg.query, cont)

run_results(cfg, cont) ==
  IF cfg.ignore_case THEN search_case_insensitive(cfg.query, cont)
  ELSE search(cfg.query, cont)

\* println!("{line}")
println(out, line) == out \o line \o <<"LF">>

(***************************************************************************)
(* The program: Config::build, then run on the Config it built.            *)
(***************************************************************************)
Init ==
  /\ pc = "start"
  /\ args \in ArgSeqs
  /\ env \in EnvStates
  /\ buildResult = [tag |-> "none", err |-> "", config |-> NoConfig]
  /\ config = NoConfig
  /\ contents = <<>>
  /\ searched = "none"
  /\ results = <<>>
  /\ idx = 0
  /\ stdout = <<>>
  /\ runResult = [tag |-> "none", err |-> ""]

ConfigBuild ==
  /\ pc = "start"
  /\ buildResult' = Config_build(args, env)
  /\ config' = buildResult'.config
  /\ pc' = IF buildResult'.tag = "Ok" THEN "built" ELSE "build_err"
  /\ UNCHANGED <<args, env, contents, searched, results, idx, stdout, runResult>>

\* the error is recorded and run goes on with empty contents
RunRead_goes_on ==
  /\ pc = "built"
  /\ \/ \E c \in FileContents :
          /\ contents' = c
          /\ pc' = "read"
          /\ runResult' = runResult
     \/ \E e \in ReadErrors :
          /\ contents' = <<>>
          /\ pc' = "read"
          /\ runResult' = [tag |-> "Err", err |-> e]
  /\ UNCHANGED <<args, env, buildResult, config, searched, results, idx, stdout>>

\* run, line 29: fs::read_to_string(config.file_path)?
RunRead ==
  /\ pc = "built"
  /\ \/ \E c \in FileContents :
          /\ contents' = c
          /\ pc' = "read"
          /\ runResult' = runResult
     \/ \E e \in ReadErrors :
          /\ contents' = contents
          /\ pc' = "run_err"
          /\ runResult' = [tag |-> "Err", err |-> e]
  /\ UNCHANGED <<args, env, buildResult, config, searched, results, idx, stdout>>

\* run, lines 31-35: the results of the selected search function
RunSearch ==
  /\ pc = "read"
  /\ searched' = run_selected(config)
  /\ results' = run_results(config, contents)
  /\ idx' = 1
  /\ pc' = "printing"
  /\ UNCHANGED <<args, env, buildResult, config, contents, stdout, runResult>>

\* run, lines 37-39: one println per result
RunPrint ==
  /\ pc = "printing"
  /\ idx <= Len(results)
  /\ stdout' = println(stdout, results[idx])
  /\ idx' = idx + 1
  /\ UNCHANGED <<pc, args, env, buildResult, config, contents, searched,
                 results, runResult>>

\* run, line 41: Ok(())
RunReturn ==
  /\ pc = "printing"
  /\ idx > Len(results)
  /\ runResult' = [tag |-> "Ok", err |-> ""]
  /\ pc' = "done"
  /\ UNCHANGED <<args, env, buildResult, config, contents, searched, results,
                 idx, stdout>>

Next == ConfigBuild \/ RunRead \/ RunSearch \/ RunPrint \/ RunReturn

Spec == Init /\ [][Next]_vars

(***************************************************************************)
(* The two search functions, applied to every query and contents.          *)
(***************************************************************************)
InitSearch ==
  /\ pc = "call"
  /\ args = <<>>
  /\ env = [set |-> FALSE, bytes |-> <<>>]
  /\ buildResult = [tag |-> "none", err |-> "", config |-> NoConfig]
  /\ \E q \in Queries : config = [query |-> q, file_path |-> <<>>, ignore_case |-> FALSE]
  /\ contents \in Contents
  /\ searched = "none"
  /\ results = <<>>
  /\ idx = 0
  /\ stdout = <<>>
  /\ runResult = [tag |-> "none", err |-> ""]

CallSearch ==
  /\ pc = "call"
  /\ results' = search(config.query, contents)
  /\ searched' = "search"
  /\ pc' = "returned"
  /\ UNCHANGED <<args, env, buildResult, config, contents, idx, stdout, runResult>>

CallSearchCaseInsensitive ==
  /\ pc = "call"
  /\ results' = search_case_insensitive(config.query, contents)
  /\ searched' = "search_case_insensitive"
  /\ pc' = "returned"
  /\ UNCHANGED <<args, env, buildResult, config, contents, idx, stdout, runResult>>

NextSearch == CallSearch \/ CallSearchCaseInsensitive

SpecSearch == InitSearch /\ [][NextSearch]_vars

(***************************************************************************)
(* Properties of Config::build and run, checked under Spec.                *)
(***************************************************************************)
Built == pc \notin {"start", "call", "returned"}

\* C3, as stated: a sequence with a query and no file path fails with an
\* error that names the file path, one with no query with an error that names
\* the query string, so the error for a sequence of length 2 differs from the
\* error for the same sequence with its query removed.
C3_Distinguishable ==
  (pc = "build_err" /\ Len(args) = 2)
    => buildResult.err # Config_build(SubSeq(args, 1, 1), env).err

\* C3, amended: every sequence of fewer than three arguments (length 0, 1 or
\* 2) fails with the one error "not enough arguments"; the error value is the
\* same whichever field is missing.
C3_SingleError ==
  pc = "build_err"
    => /\ buildResult.err = "not enough arguments"
       /\ \A a \in ArgSeqs :
            Len(a) < 3 => Config_build(a, env).err = buildResult.err

C3_Witness == pc = "build_err" /\ Len(args) = 2

\* C4: Config::build fails, and builds no Config, exactly when the argument
\* sequence (program name included) has fewer than 3 elements; with 3 or more
\* it returns Ok with a Config, whatever the environment holds.
C4_ErrIffShort ==
  Built
    => /\ buildResult.tag \in {"Ok", "Err"}
       /\ (buildResult.tag = "Err") <=> (Len(args) < 3)
       /\ buildResult.tag = "Err" => (pc = "build_err" /\ config = NoConfig)
       /\ buildResult.tag = "Ok" => config = buildResult.config

C4_Witness ==
  /\ pc = "built"
  /\ Len(args) = 3
  /\ env.set
  /\ ~is_unicode(env.bytes)

\* C5: for a sequence of 3 or more arguments the Config has the second
\* element as query and the third as file_path; the program name and the
\* elements after the third do not change the Config.
C5_QueryAndPath ==
  pc = "built"
    => /\ config.query = args[2]
       /\ config.file_path = args[3]
       /\ \A p \in ArgStrs :
            /\ Config_build(<<p, args[2], args[3]>>, env).config = config
            /\ \A x \in ArgStrs :
                 Config_build(<<p, args[2], args[3], x>>, env).config = config

C5_Witness ==
  /\ pc = "built"
  /\ Len(args) = 4
  /\ args[1] # args[2]
  /\ args[2] # args[3]
  /\ args[4] # args[3]

\* C6: after a successful Config::build, ignore_case is true exactly when
\* IGNORE_CASE is set in the environment, whatever value it holds.
C6_IgnoreCaseIffSet ==
  pc = "built" => (config.ignore_case <=> env.set)

\* what run is to write: each line followed by the line terminator
RECURSIVE Printed(_)
Printed(ls) ==
  IF ls = <<>> THEN <<>> ELSE Head(ls) \o <<"LF">> \o Printed(Tail(ls))

Expected ==
  IF config.ignore_case THEN search_case_insensitive(config.query, contents)
  ELSE search(config.query, contents)

\* C7: when the file is read, run writes exactly the lines of
\* search_case_insensitive (ignore_case true) or of search (ignore_case
\* false), one output line per result, in order, nothing added, dropped or
\* repeated, and returns Ok.
C7_OutputIsResult ==
  /\ pc = "printing"
       => /\ idx \in 1..(Len(Expected) + 1)
          /\ stdout = Printed(SubSeq(Expected, 1, idx - 1))
          /\ runResult.tag = "none"
  /\ pc = "done"
       => /\ stdout = Printed(Expected)
          /\ runResult.tag = "Ok"

C7_Witness ==
  /\ pc = "done"
  /\ config.ignore_case
  /\ Len(results) >= 2
  /\ results # search(config.query, contents)
  /\ stdout # <<>>

\* C8: when the file cannot be read run returns the error and ends: no
\* search function has been evaluated, nothing has been written to standard
\* output and nothing follows; output exists only after a successful read.
C8_ReadFailureEndsRun ==
  /\ runResult.tag = "Err"
       => /\ pc = "run_err"
          /\ runResult.err \in ReadErrors
          /\ searched = "none"
          /\ results = <<>>
          /\ stdout = <<>>
          /\ ~ENABLED Next
  /\ (stdout # <<>> \/ searched # "none")
       => (pc \in {"printing", "done"} /\ runResult.tag # "Err")

C8_Witness == pc = "run_err" /\ runResult.err = "InvalidData" /\ buildResult.tag = "Ok"

(***************************************************************************)
(* Properties of the two search functions, checked under SpecSearch.       *)
(***************************************************************************)
\* needle occurs in hay as a contiguous run of equal characters
OccursIn(needle, hay) ==
  \E i \in 1..(Len(hay) + 1) :
    /\ i + Len(needle) - 1 <= Len(hay)
    /\ \A j \in 1..Len(needle) : hay[i + j - 1] = needle[j]

\* the k-th smallest element of the set S of indices
KthOf(S, k) == CHOOSE i \in S : Cardinality({j \in S : j < i}) = k - 1

\* res is the sequence of the lines of L at the indices S, in increasing order
IsSelection(res, L, S) ==
  /\ Len(res) = Cardinality(S)
  /\ \A k \in 1..Len(res) : res[k] = L[KthOf(S, k)]

RECURSIVE IsSubsequence(_, _)
IsSubsequence(a, b) ==
  IF a = <<>> THEN TRUE
  ELSE IF b = <<>> THEN FALSE
  ELSE IF Head(a) = Head(b) THEN IsSubsequence(Tail(a), Tail(b))
  ELSE IsSubsequence(a, Tail(b))

\* C1: search returns exactly the lines of the contents that contain the
\* query as a contiguous case-exact substring, in their order and with their
\* multiplicity in the contents.
C1_SearchExact ==
  searched = "search"
    => LET L == lines(contents)
       IN  IsSelection(results, L,
                       {i \in 1..Len(L) : OccursIn(config.query, L[i])})

C1_Witness ==
  /\ searched = "search"
  /\ config.query # <<>>
  /\ Len(lines(contents)) = 2
  /\ results = <<lines(contents)[2]>>

\* C2: search_case_insensitive returns exactly the lines whose lower-cased
\* form contains the lower-cased query, in their order in the contents, each
\* as the original text of the line.
C2_SearchCaseInsensitive ==
  searched = "search_case_insensitive"
    => LET L == lines(contents)
       IN  IsSelection(results, L,
                       {i \in 1..Len(L) :
                          OccursIn(to_lowercase(config.query), to_lowercase(L[i]))})

C2_Witness ==
  /\ searched = "search_case_insensitive"
  /\ config.query # <<>>
  /\ Len(results) = 1
  /\ Len(lines(contents)) = 2
  /\ results[1] # to_lowercase(results[1])

\* the function that was applied, on other contents
Applied(q, c) ==
  IF searched = "search" THEN search(q, c) ELSE search_case_insensitive(q, c)

LFCount(c) == Cardinality({i \in 1..Len(c) : c[i] = "LF"})

\* C9, as stated: for contents that do not end in a line terminator, the
\* result for the contents followed by one final line terminator equals the
\* result for the contents.
C9_FinalTerminatorIgnored ==
  (searched # "none" /\ (contents = <<>> \/ Last(contents) # "LF"))
    => Applied(config.query, contents \o <<"LF">>) = results

\* C9, amended: for non-empty contents that end neither in a line feed nor
\* in a carriage return, the result for the contents followed by one final
\* line terminator (LF or CR LF) equals the result for the contents; empty
\* contents yield an empty result; for the empty query every line is
\* returned, the empty ones included: one per line feed, and one more for a
\* non-empty unterminated last line.
C9_NoSpuriousTrailingLine ==
  searched # "none"
    => /\ (contents # <<>> /\ Last(contents) \notin {"LF", "CR"})
            => /\ Applied(config.query, contents \o <<"LF">>) = results
               /\ Applied(config.query, contents \o <<"CR", "LF">>) = results
       /\ contents = <<>> => results = <<>>
       /\ config.query = <<>>
            => Len(results) = LFCount(contents)
                 + (IF contents # <<>> /\ Last(contents) # "LF" THEN 1 ELSE 0)

C9_Witness ==
  /\ searched = "search"
  /\ config.query = <<>>
  /\ contents = <<"LF", "LF", "a">>
  /\ results = <<<<>>, <<>>, <<"a">>>>

NoSigma(q) == \A i \in 1..Len(q) : q[i] # "SIGMA"

ExactResult ==
  IF searched = "search" THEN results ELSE search(config.query, contents)

CaseInsensitiveResult ==
  IF searched = "search_case_insensitive" THEN results
  ELSE search_case_insensitive(config.query, contents)

\* C10, as stated: for every query and contents the result of search is a
\* subsequence of the result of search_case_insensitive.
C10_ExactWithinCaseInsensitive ==
  searched # "none" => IsSubsequence(ExactResult, CaseInsensitiveResult)

\* C10, amended: for every query that holds no capital sigma (U+03A3) and
\* every contents, the result of search is a subsequence of the result of
\* search_case_insensitive.
C10_ExactWithinCaseInsensitiveNoSigma ==
  (searched # "none" /\ NoSigma(config.query))
    => IsSubsequence(ExactResult, CaseInsensitiveResult)

C10_Witness ==
  /\ searched = "search_case_insensitive"
  /\ NoSigma(config.query)
  /\ config.query # <<>>
  /\ Len(search(config.query, contents)) = 1
  /\ Len(results) = 2

====
